---- MODULE Spec2Model ----
(***************************************************************************)
(* Insider Trade Tracker: the server (refresh scheduler, transaction       *)
(* store, the three HTTP endpoints) and the client's ratio analyzer.       *)
(*                                                                         *)
(* Strings that the code inspects character by character (ticker symbols)  *)
(* are sequences of character codes.  JavaScript values that may be absent *)
(* are the model value Undefined (a missing property) or Null.             *)
(***************************************************************************)
EXTENDS Integers, Sequences, FiniteSets

VARIABLES
    insiderData,    \* server: the in-memory snapshot (let insiderData)
    pending,        \* server: ids of the fetchInsiderTradingData calls awaiting axios.get
    nextTick,       \* server: number of the next cron tick (the startup call is 0)
    lastResp,       \* history: the provider outcome the last resumed refresh received
    applied,        \* history: the response body whose filter was last stored
    res,            \* the last response GET /api/insider-trades sent
    symbol,         \* isUsEquity: the argument
    usEquity,       \* isUsEquity: the value returned
    proxyReq,       \* forwarding endpoints: the last request (endpoint, symbol)
    proxyProv,      \* forwarding endpoints: what the provider did for that request
    proxyRes,       \* forwarding endpoints: the response sent
    financialData,  \* analyzeFinancialData: the argument
    locals,         \* analyzeFinancialData: the seven extracted values, once read
    analysis,       \* analyzeFinancialData: the value returned
    writer,         \* history: id of the refresh that stored the snapshot, once one did
    trade,          \* displayData: the record of one forEach iteration
    row,            \* displayData: the table row appended for that record
    metrics,        \* recommendation rule: the ratios it is evaluated on
    decision,       \* recommendation rule: the recommendation chosen
    table,          \* page: the element with id "data" (the table)
    polls,          \* page: number of fetchData calls awaiting the snapshot
    clicks,         \* page: the bag of row click handlers awaiting a fetch
    modal,          \* page: the element with id "modal" (display, title, content)
    financialChartInstance, \* page: let financialChartInstance
    charts,         \* page: ids of the Chart objects created and not destroyed
    event           \* history: the page event handled last, with what it received

serverVars == <<insiderData, pending, nextTick, lastResp, applied, res, writer>>
filterVars == <<symbol, usEquity>>
proxyVars == <<proxyReq, proxyProv, proxyRes>>
analyzeVars == <<financialData, locals, analysis>>
rowVars == <<trade, row>>
decideVars == <<metrics, decision>>
clientVars == <<table, polls, clicks, modal, financialChartInstance, charts, event>>
vars == <<insiderData, pending, nextTick, lastResp, applied, res, symbol,
          usEquity, proxyReq, proxyProv, proxyRes, financialData, locals, analysis,
          writer, trade, row, metrics, decision, table, polls, clicks, modal,
          financialChartInstance, charts, event>>

\* JavaScript values are records tagged with their type
Undefined == [t |-> "undefined"]
Null == [t |-> "null"]
Str(chars) == [t |-> "string", chars |-> chars]
Arr(items) == [t |-> "array", items |-> items]

\* the model's own "no value yet": an optional value is <<>> or <<v>>
None == <<>>
Some(v) == <<v>>

-----------------------------------------------------------------------------
(* Bounds *)

\* longest ticker string enumerated for isUsEquity
MaxSymLen == 3
\* most records in one provider response
MaxRecs == 2
\* cron ticks after the startup refresh
MaxTicks == 1
\* most elements in a price series or in a list of financials results
MaxSeries == 2

-----------------------------------------------------------------------------
(* isUsEquity: /^[A-Z]+$/.test(symbol) *)

\* character codes: A Z @ [ a 7 . space newline
Alphabet == {65, 90, 64, 91, 97, 55, 46, 32, 10}

\* String(v): a string converts to itself, undefined to "undefined", null to "null"
ToString(v) ==
    IF v.t = "string" THEN v.chars
    ELSE IF v.t = "undefined" THEN <<117, 110, 100, 101, 102, 105, 110, 101, 100>>
    ELSE <<110, 117, 108, 108>>

\* the character class [A-Z]
ClassAZ(c) == c >= 65 /\ c <= 90

\* ^ without the m flag: only at the start of the input
AssertStart(str, pos) == pos = 0

\* $ without the m flag: only at the very end of the input
AssertEndPython(str, pos) ==
    \/ pos = Len(str)
    \/ pos = Len(str) - 1 /\ str[Len(str)] = 10
AssertEnd(str, pos) == pos = Len(str)

\* [A-Z]+ from position pos: the positions where one or more class characters end
PlusEnds(str, pos) ==
    {e \in (pos + 1)..Len(str) : \A i \in (pos + 1)..e : ClassAZ(str[i])}

\* RegExp.prototype.test: a match attempt at every start position of the input
RegExpTest(str) ==
    \E start \in 0..Len(str) :
        /\ AssertStart(str, start)
        /\ \E e \in PlusEnds(str, start) : AssertEnd(str, e)

isUsEquity(sym) == RegExpTest(ToString(sym))

\* every string over Alphabet of length at most n
RECURSIVE StringsUpTo(_)
StringsUpTo(n) ==
    IF n = 0 THEN {<<>>}
    ELSE LET shorter == StringsUpTo(n - 1) IN
         shorter \cup {Append(s, c) : s \in {t \in shorter : Len(t) = n - 1}, c \in Alphabet}

\* "AAPL", "BRK.B", "7203", "aapl", "AAPL\n", "AA PL"
TickerAAPL == <<65, 65, 80, 76>>
TickerBRKB == <<66, 82, 75, 46, 66>>
Ticker7203 == <<55, 50, 48, 51>>
TickerLower == <<97, 97, 112, 108>>
TickerNewline == <<65, 65, 80, 76, 10>>
TickerSpace == <<65, 65, 32, 80, 76>>
Tickers ==
    {Str(c) : c \in StringsUpTo(MaxSymLen)
        \cup {TickerAAPL, TickerBRKB, Ticker7203, TickerLower, TickerNewline, TickerSpace}}

NoOutcome == [kind |-> "none"]
NoResponse == [status |-> 0]

ServerIdle ==
    /\ insiderData = <<>>
    /\ pending = {}
    /\ nextTick = 1
    /\ lastResp = NoOutcome
    /\ applied = None
    /\ res = NoResponse
    /\ writer = None
FilterIdle == symbol = Str(<<>>) /\ usEquity = None
ProxyIdle == proxyReq = None /\ proxyProv = NoOutcome /\ proxyRes = NoResponse
AnalyzeIdle == financialData = Undefined /\ locals = None /\ analysis = None
RowIdle == trade = Undefined /\ row = None
DecideIdle == metrics = Undefined /\ decision = None
\* index.html as loaded: the table holds its <thead> and an empty <tbody>, the
\* modal is hidden (.modal {display: none}) with the static title "Details" (None)
PageTable == [tbody |-> TRUE, rows |-> <<>>]
PageModal == [display |-> "none", title |-> None, content |-> None]
\* a bag is a function from its elements to their positive counts
EmptyBag == [x \in {} |-> 0]
ClientIdle ==
    /\ table = PageTable /\ polls = 0 /\ clicks = EmptyBag /\ modal = PageModal
    /\ financialChartInstance = Undefined /\ charts = {} /\ event = NoOutcome
OtherIdle == RowIdle /\ DecideIdle /\ ClientIdle

InitFilter ==
    /\ symbol \in Tickers
    /\ usEquity = None
    /\ ServerIdle /\ ProxyIdle /\ AnalyzeIdle /\ OtherIdle

CallIsUsEquity ==
    /\ usEquity = None
    /\ usEquity' = Some(isUsEquity(symbol))
    /\ UNCHANGED <<symbol, serverVars, proxyVars, analyzeVars, rowVars, decideVars,
                   clientVars>>

NextFilter == CallIsUsEquity
SpecFilter == InitFilter /\ [][NextFilter]_vars

\* the characters A-Z
UpperAZ == 65..90
\* a string that is non-empty and made of the characters A-Z only
IsUpperTicker(chars) == chars # <<>> /\ {chars[i] : i \in DOMAIN chars} \subseteq UpperAZ

\* C4: isUsEquity(s) is true exactly when s is non-empty and every character
\* of s is an uppercase letter A-Z; "AAPL" is accepted, and "BRK.B", "7203",
\* "", and symbols with a lowercase letter, space or trailing newline are not.
C4_SymbolFilter ==
    usEquity # None =>
        /\ usEquity[1] = IsUpperTicker(symbol.chars)
        /\ symbol.chars = TickerAAPL => usEquity[1]
        /\ symbol.chars \in {TickerBRKB, Ticker7203, <<>>, TickerLower, TickerNewline,
                              TickerSpace} => ~usEquity[1]
C4_Witness == symbol.chars = TickerNewline /\ usEquity = Some(FALSE)

-----------------------------------------------------------------------------
(* Refresh scheduler and transaction store *)

\* the symbols of the records a provider response may hold: "A", "BZ", "B.B"
TradeSymbols == {Str(<<65>>), Str(<<66, 90>>), Str(<<66, 46, 66>>)}
\* one element of response.data.data: a trade object, or null
Trade(sym) == [t |-> "object", symbol |-> sym]
TradeRecords == {Null} \cup {Trade(sym) : sym \in TradeSymbols}

RECURSIVE SeqsUpTo(_, _)
SeqsUpTo(S, n) ==
    IF n = 0 THEN {<<>>}
    ELSE LET shorter == SeqsUpTo(S, n - 1) IN
         shorter \cup {Append(q, x) : q \in {r \in shorter : Len(r) = n - 1}, x \in S}

\* response.data of a 2xx answer: JSON null, an empty text body, an object
\* without a data property, with data: null, with data: "B.B" (no array), or
\* with a data array of up to MaxRecs records
Body(data) == [t |-> "object", data |-> data]
FinnhubBodies ==
    {Null, Str(<<>>), Body(Undefined), Body(Null), Body(Str(<<66, 46, 66>>))}
        \cup {Body(Arr(items)) : items \in SeqsUpTo(TradeRecords, MaxRecs)}

\* what axios.get settles with: no response at all, a response whose status
\* is outside 2xx (both reject), or a 2xx response (resolves)
NetworkError == [kind |-> "neterr"]
HttpError(status) == [kind |-> "http", status |-> status]
Ok(data) == [kind |-> "ok", data |-> data]
ErrorStatuses == {401, 429, 500}
FinnhubOutcomes ==
    {NetworkError} \cup {HttpError(st) : st \in ErrorStatuses}
        \cup {Ok(b) : b \in FinnhubBodies}

\* the result of evaluating an expression: a value, or a thrown error
Value(v) == [threw |-> FALSE, value |-> v]
Threw == [threw |-> TRUE]

\* obj.data: a TypeError on null and undefined, undefined on a string
GetData(obj) ==
    IF obj.t \in {"null", "undefined"} THEN Threw
    ELSE IF obj.t = "object" THEN Value(obj.data)
    ELSE Value(Undefined)

\* Array.prototype.filter with the callback (trade) => isUsEquity(trade.symbol):
\* the elements are visited in order, trade.symbol throws on a null element,
\* and the elements the callback accepts are collected in order
RECURSIVE FilterFrom(_, _, _)
FilterFrom(items, i, kept) ==
    IF i > Len(items) THEN Value(kept)
    ELSE IF items[i].t \in {"null", "undefined"} THEN Threw
    ELSE FilterFrom(items, i + 1,
                    IF isUsEquity(items[i].symbol) THEN Append(kept, items[i]) ELSE kept)

\* response.data.data.filter(...): a TypeError unless data is an array
FilterUsEquities(data) ==
    IF data.t # "array" THEN Threw ELSE FilterFrom(data.items, 1, <<>>)

\* the try block of fetchInsiderTradingData after the await, for one settled
\* axios.get: the value to assign to insiderData, or a throw into the catch
TryRefresh(outcome) ==
    IF outcome.kind # "ok" THEN Threw
    ELSE LET data == GetData(outcome.data) IN
         IF data.threw THEN Threw ELSE FilterUsEquities(data.value)

\* what a filter that pushed into the store directly would leave behind
RECURSIVE KeptBeforeThrow(_, _, _)
KeptBeforeThrow(items, i, kept) ==
    IF i > Len(items) \/ items[i].t \in {"null", "undefined"} THEN kept
    ELSE KeptBeforeThrow(items, i + 1,
                         IF isUsEquity(items[i].symbol) THEN Append(kept, items[i]) ELSE kept)

\* variants of fetchInsiderTradingData with a fault: the catch block empties the
\* store; the new records are added to the old ones; the filter writer into
\* the store while it runs
fetchClearsOnError(outcome, current) ==
    LET r == TryRefresh(outcome) IN
    IF r.threw THEN <<>> ELSE r.value
fetchMergesIntoSnapshot(outcome, current) ==
    LET r == TryRefresh(outcome) IN
    IF r.threw THEN current ELSE current \o r.value
fetchStoresPartial(outcome, current) ==
    LET r == TryRefresh(outcome) IN
    IF ~r.threw THEN r.value
    ELSE IF outcome.kind = "ok" /\ outcome.data.t = "object" /\ outcome.data.data.t = "array"
         THEN KeptBeforeThrow(outcome.data.data.items, 1, <<>>)
         ELSE current

\* fetchInsiderTradingData from the await on: the snapshot it leaves
fetchInsiderTradingData(outcome, current) ==
    LET r == TryRefresh(outcome) IN
    IF r.threw THEN current ELSE r.value

Init ==
    /\ insiderData = <<>>
    /\ pending = {0}
    /\ nextTick = 1
    /\ lastResp = NoOutcome
    /\ applied = None
    /\ res = NoResponse
    /\ writer = None
    /\ FilterIdle /\ ProxyIdle /\ AnalyzeIdle /\ OtherIdle

\* cron.schedule("*/1 * * * *", fetchInsiderTradingData): a tick starts a new
\* call, which runs up to its await; calls already in flight are not waited for
CronTick ==
    /\ nextTick <= MaxTicks
    /\ pending' = pending \cup {nextTick}
    /\ nextTick' = nextTick + 1
    /\ UNCHANGED <<insiderData, lastResp, applied, res, writer, filterVars, proxyVars,
                   analyzeVars, rowVars, decideVars, clientVars>>

\* a variant of the resumption with a fault: a response that arrives after a
\* later call has stored its snapshot is dropped
RefreshResumeDropsStale(id, outcome) ==
    LET stale == writer # None /\ writer[1] > id
        stores == ~TryRefresh(outcome).threw /\ ~stale IN
    /\ id \in pending
    /\ pending' = pending \ {id}
    /\ insiderData' = IF stores THEN fetchInsiderTradingData(outcome, insiderData)
                      ELSE insiderData
    /\ lastResp' = outcome
    /\ applied' = IF stores THEN Some(outcome.data.data.items) ELSE applied
    /\ writer' = IF stores THEN Some(id) ELSE writer
    /\ UNCHANGED <<nextTick, res, filterVars, proxyVars, analyzeVars, rowVars, decideVars,
                   clientVars>>

\* the axios.get of call id settles and the call runs to its end
RefreshResume(id, outcome) ==
    /\ id \in pending
    /\ pending' = pending \ {id}
    /\ insiderData' = fetchInsiderTradingData(outcome, insiderData)
    /\ lastResp' = outcome
    /\ applied' = IF TryRefresh(outcome).threw THEN applied
                  ELSE Some(outcome.data.data.items)
    /\ writer' = IF TryRefresh(outcome).threw THEN writer ELSE Some(id)
    /\ UNCHANGED <<nextTick, res, filterVars, proxyVars, analyzeVars, rowVars, decideVars,
                   clientVars>>

\* a variant of the handler with a fault: it answers with an empty list
InsiderTradesResponseEmpty(data) == [status |-> 200, body |-> <<>>]

\* app.get("/api/insider-trades"): res.json(insiderData)
InsiderTradesResponse(data) == [status |-> 200, body |-> data]
GetInsiderTrades ==
    /\ res' = InsiderTradesResponse(insiderData)
    /\ UNCHANGED <<insiderData, pending, nextTick, lastResp, applied, writer, filterVars,
                   proxyVars, analyzeVars, rowVars, decideVars, clientVars>>

Next ==
    \/ CronTick
    \/ \E id \in pending, outcome \in FinnhubOutcomes : RefreshResume(id, outcome)
    \/ GetInsiderTrades

Spec == Init /\ [][Next]_vars

-----------------------------------------------------------------------------
(* Properties of the refresh and of the store *)

\* a step in which one refresh call ran from its await to its end
RefreshStep == pending' # pending /\ pending' \subseteq pending

\* a 2xx response whose body holds a data array without null records
WellFormed(body) ==
    /\ body.t = "object"
    /\ body.data.t = "array"
    /\ \A i \in DOMAIN body.data.items : body.data.items[i] # Null
RefreshSucceeds(outcome) == outcome.kind = "ok" /\ WellFormed(outcome.data)
\* a network error, a non-2xx status, or a malformed body
RefreshFails(outcome) ==
    \/ outcome.kind \in {"neterr", "http"}
    \/ outcome.kind = "ok" /\ ~WellFormed(outcome.data)

\* the subsequence of items whose symbol is an uppercase ticker, by position:
\* its i-th element is the item at the i-th smallest matching index
MatchingIndices(items) ==
    {j \in DOMAIN items :
        items[j].symbol.t = "string" /\ IsUpperTicker(items[j].symbol.chars)}
NthIndex(J, i) == CHOOSE j \in J : Cardinality({k \in J : k < j}) = i - 1
ExpectedSnapshot(items) ==
    LET J == MatchingIndices(items) IN
    [i \in 1..Cardinality(J) |-> items[NthIndex(J, i)]]

\* C1: a refresh that fails (network error, non-2xx status, malformed body)
\* leaves the snapshot as it was before the call, whatever came before.
C1_FailedRefreshKeepsSnapshot ==
    [][RefreshStep /\ RefreshFails(lastResp') => insiderData' = insiderData]_vars
C1_Witness ==
    /\ lastResp.kind = "ok"
    /\ lastResp.data = Body(Arr(<<Trade(Str(<<65>>)), Null>>))
    /\ insiderData = <<Trade(Str(<<66, 90>>))>>

\* C2: a refresh that succeeds makes the snapshot exactly the subsequence of
\* the response's records whose symbol is a US equity, in response order;
\* nothing of the previous snapshot survives.
C2_SuccessReplacesSnapshot ==
    [][RefreshStep /\ RefreshSucceeds(lastResp')
         => insiderData' = ExpectedSnapshot(lastResp'.data.data.items)]_vars
C2_Witness ==
    /\ lastResp = Ok(Body(Arr(<<Trade(Str(<<66, 46, 66>>)), Trade(Str(<<65>>))>>)))
    /\ insiderData = <<Trade(Str(<<65>>))>>
    /\ res = InsiderTradesResponse(<<Trade(Str(<<66, 90>>)), Trade(Str(<<65>>))>>)

\* C3 as stated: the snapshot is always the filtered output of exactly one
\* provider response whose refresh has completed.
C3_AlwaysOneCompletedRefresh ==
    applied # None /\ insiderData = ExpectedSnapshot(applied[1])

\* C3: the snapshot is the initial empty list while no refresh has succeeded,
\* and from then on the filtered output of exactly one provider response, the
\* one whose refresh was the last to succeed; never a partial or mixed list.
C3_SnapshotOfOneResponse ==
    insiderData = IF applied = None THEN <<>> ELSE ExpectedSnapshot(applied[1])
C3_Witness ==
    /\ pending = {0}
    /\ nextTick = 2
    /\ applied = Some(<<Trade(Str(<<66, 90>>)), Trade(Str(<<66, 46, 66>>))>>)
    /\ insiderData = <<Trade(Str(<<66, 90>>))>>

\* C5: GET /api/insider-trades answers 200 with the current snapshot, which is
\* the filtered result of the last successful refresh (the empty list before
\* any), calls no provider and leaves the store alone, also after failures.
C5_ReadServesSnapshot ==
    [][res' # res =>
         /\ res'.status = 200
         /\ res'.body = insiderData
         /\ res'.body = IF applied = None THEN <<>> ELSE ExpectedSnapshot(applied[1])
         /\ UNCHANGED <<insiderData, pending, nextTick, lastResp, applied>>]_vars
C5_Witness ==
    /\ RefreshFails(lastResp)
    /\ applied # None
    /\ res = InsiderTradesResponse(<<Trade(Str(<<66, 90>>)), Trade(Str(<<65>>))>>)
    /\ insiderData = res.body

-----------------------------------------------------------------------------
(* The forwarding endpoints /api/tiingo and /api/polygon-financials *)

\* req.query.symbol: "A", "BZ", "B.B", "AAPL"
QuerySymbols == {<<65>>, <<66, 90>>, <<66, 46, 66>>, TickerAAPL}

\* the pieces of the plain-text messages
MsgNoPrice == "No stock price data available for symbol: "
MsgPriceError == "Error fetching stock price data"
MsgNoFinancials == "No financial data available."
MsgFinancialsError == "Error fetching financial data."

\* res.json(value) answers 200 unless a status was set; res.status(n).send(text)
Json(value) == [status |-> 200, type |-> "json", json |-> value]
Text(status, parts) == [status |-> status, type |-> "text", text |-> parts]

\* elements of a Tiingo price series and of Polygon's results
PricePoints == {[t |-> "object", close |-> c] : c \in {1, 2}}
FinancialsResults == {[t |-> "object", fiscal |-> y] : y \in {1, 2}}

\* response.data of a 2xx answer of Tiingo: JSON null, an empty or a non-empty
\* text body, an object (no array), or an array of up to MaxSeries price points
TiingoBodies ==
    {Null, Str(<<>>), Str(<<66, 46, 66>>), [t |-> "object"]}
        \cup {Arr(series) : series \in SeqsUpTo(PricePoints, MaxSeries)}
TiingoOutcomes ==
    {NetworkError} \cup {HttpError(st) : st \in ErrorStatuses}
        \cup {Ok(b) : b \in TiingoBodies}

\* response.data of a 2xx answer of Polygon: JSON null, an empty text body, an
\* object without results, with results: null, or with a results array
Results(results) == [t |-> "object", results |-> results]
PolygonBodies ==
    {Null, Str(<<>>), Results(Undefined), Results(Null)}
        \cup {Results(Arr(list)) : list \in SeqsUpTo(FinancialsResults, MaxSeries)}
PolygonOutcomes ==
    {NetworkError} \cup {HttpError(st) : st \in ErrorStatuses}
        \cup {Ok(b) : b \in PolygonBodies}

\* error.response?.status || 500
ErrorStatusOr500(outcome) ==
    IF outcome.kind = "http" /\ outcome.status # 0 THEN outcome.status ELSE 500

\* response.data && response.data.length > 0
HasLength(data) ==
    /\ data.t \notin {"null", "undefined"}
    /\ \/ data.t = "array" /\ Len(data.items) > 0
       \/ data.t = "string" /\ Len(data.chars) > 0

\* a variant of the handler with a fault: every provider error answers 500
tiingoAlways500(sym, outcome) ==
    IF outcome.kind # "ok" THEN Text(500, <<MsgPriceError>>)
    ELSE IF HasLength(outcome.data) THEN Json(outcome.data)
    ELSE Text(404, <<MsgNoPrice, sym>>)

\* app.get("/api/tiingo"): the response for one settled axios.get
tiingo(sym, outcome) ==
    IF outcome.kind # "ok" THEN Text(ErrorStatusOr500(outcome), <<MsgPriceError>>)
    ELSE IF HasLength(outcome.data) THEN Json(outcome.data)
    ELSE Text(404, <<MsgNoPrice, sym>>)

\* response.data.results: a TypeError on null, undefined on a string
GetResults(data) ==
    IF data.t \in {"null", "undefined"} THEN Threw
    ELSE IF data.t = "object" THEN Value(data.results)
    ELSE Value(Undefined)

\* results?.length: undefined for null and undefined, else the length
OptionalLength(results) ==
    IF results.t = "array" THEN Len(results.items) ELSE 0

\* app.get("/api/polygon-financials"): the response for one settled axios.get
polygonFinancials(sym, outcome) ==
    IF outcome.kind # "ok" THEN Text(500, <<MsgFinancialsError>>)
    ELSE LET r == GetResults(outcome.data) IN
         IF r.threw THEN Text(500, <<MsgFinancialsError>>)
         ELSE IF OptionalLength(r.value) # 0 THEN Json(r.value.items[1])
         ELSE Text(404, <<MsgNoFinancials>>)

InitProxy ==
    /\ proxyReq = None
    /\ proxyProv = NoOutcome
    /\ proxyRes = NoResponse
    /\ ServerIdle /\ FilterIdle /\ AnalyzeIdle /\ OtherIdle

GetTiingo(sym, outcome) ==
    /\ proxyReq' = Some([endpoint |-> "tiingo", symbol |-> sym])
    /\ proxyProv' = outcome
    /\ proxyRes' = tiingo(sym, outcome)
    /\ UNCHANGED <<serverVars, filterVars, analyzeVars, rowVars, decideVars, clientVars>>

GetPolygonFinancials(sym, outcome) ==
    /\ proxyReq' = Some([endpoint |-> "polygon-financials", symbol |-> sym])
    /\ proxyProv' = outcome
    /\ proxyRes' = polygonFinancials(sym, outcome)
    /\ UNCHANGED <<serverVars, filterVars, analyzeVars, rowVars, decideVars, clientVars>>

NextProxy ==
    \/ \E sym \in QuerySymbols, outcome \in TiingoOutcomes : GetTiingo(sym, outcome)
    \/ \E sym \in QuerySymbols, outcome \in PolygonOutcomes :
          GetPolygonFinancials(sym, outcome)

SpecProxy == InitProxy /\ [][NextProxy]_vars

\* C6 as stated: on both forwarding endpoints a provider HTTP error is answered
\* with the provider's status and an unreachable provider with 500.
C6_BothEndpointsPropagate ==
    /\ proxyProv.kind = "http" => proxyRes.status = proxyProv.status
    /\ proxyProv.kind = "neterr" => proxyRes.status = 500

\* C6: /api/tiingo answers a provider HTTP error with the provider's status and
\* an unreachable provider with 500; /api/polygon-financials answers 500 in
\* both cases.
C6_ErrorStatus ==
    proxyReq # None =>
        /\ proxyProv.kind = "neterr" => proxyRes.status = 500
        /\ proxyProv.kind = "http" =>
              proxyRes.status = IF proxyReq[1].endpoint = "tiingo"
                                THEN proxyProv.status ELSE 500
C6_Witness ==
    /\ proxyReq = Some([endpoint |-> "polygon-financials", symbol |-> TickerAAPL])
    /\ proxyProv = HttpError(429)
    /\ proxyRes = Text(500, <<MsgFinancialsError>>)

\* the result a 2xx provider answer carries: the price series of Tiingo (any
\* body with a length counts), the results list of Polygon; none when missing
ResultIsNonEmpty(endpoint, data) ==
    IF endpoint = "tiingo"
    THEN \/ data.t = "array" /\ data.items # <<>>
         \/ data.t = "string" /\ data.chars # <<>>
    ELSE /\ data.t = "object"
         /\ data.results.t = "array"
         /\ data.results.items # <<>>

\* C7: when the provider call succeeds, a non-empty result is answered with
\* 200 and the data (the series for /api/tiingo, the first result alone for
\* /api/polygon-financials), an empty or missing result with 404 and a
\* plain-text message, and no other status is produced.
C7_SuccessIs200Or404 ==
    proxyReq # None /\ proxyProv.kind = "ok" =>
        IF ResultIsNonEmpty(proxyReq[1].endpoint, proxyProv.data)
        THEN /\ proxyRes.status = 200
             /\ proxyRes.type = "json"
             /\ proxyRes.json = IF proxyReq[1].endpoint = "tiingo" THEN proxyProv.data
                                ELSE proxyProv.data.results.items[1]
        ELSE proxyRes.status = 404 /\ proxyRes.type = "text"

-----------------------------------------------------------------------------
(* The ratio analyzer: analyzeFinancialData *)

\* A JavaScript number is a fraction n/d in lowest terms with d > 0; the
\* denominator 0 encodes Infinity (1/0), -Infinity (-1/0) and NaN (0/0).
\* The fractions are exact: the rounding of doubles is not modelled.
Abs(x) == IF x < 0 THEN -x ELSE x
RECURSIVE GCD(_, _)
GCD(a, b) == IF b = 0 THEN a ELSE GCD(b, a % b)
Frac(n, d) ==
    LET sign == IF d < 0 THEN -1 ELSE 1
        g == GCD(Abs(n), Abs(d))
    IN  [t |-> "number", n |-> (sign * n) \div g, d |-> (sign * d) \div g]
Num(i) == [t |-> "number", n |-> i, d |-> 1]
Infinity == [t |-> "number", n |-> 1, d |-> 0]
NegInfinity == [t |-> "number", n |-> -1, d |-> 0]
NaN == [t |-> "number", n |-> 0, d |-> 0]

\* a / b for finite a and b: x/0 is an infinity of the sign of x, 0/0 is NaN
Divide(a, b) ==
    IF b.n = 0
    THEN IF a.n = 0 THEN NaN ELSE IF a.n > 0 THEN Infinity ELSE NegInfinity
    ELSE Frac(a.n * b.d, a.d * b.n)

\* a * b for a finite positive b: infinities and NaN stay what they are
Times(a, b) == IF a.d = 0 THEN a ELSE Frac(a.n * b.n, a.d * b.d)

\* a < b and a > b; every comparison with NaN is false
Less(a, b) ==
    IF a = NaN \/ b = NaN THEN FALSE
    ELSE IF a.d = 0 \/ b.d = 0
    THEN \/ a = NegInfinity /\ b # NegInfinity
         \/ b = Infinity /\ a # Infinity
    ELSE a.n * b.d < b.n * a.d
Greater(a, b) == Less(b, a)

\* v || dflt: undefined, null, 0, NaN and "" are falsy
Falsy(v) ==
    \/ v.t \in {"undefined", "null"}
    \/ (v.t = "number" /\ v.n = 0)
    \/ (v.t = "string" /\ v.chars = <<>>)
OrElse(v, dflt) == IF Falsy(v) THEN dflt ELSE v

\* The .value leaves of financials that the analyzer reads.  Undefined stands
\* for a leaf that is missing at any level of the ?. chain.
FieldNames ==
    {"revenues", "net_income_loss", "assets", "current_assets",
     "current_liabilities", "liabilities", "equity"}
FieldValues ==
    [revenues |-> {Undefined, Num(0), Num(1000)},
     net_income_loss |-> {Undefined, Num(-50), Num(0), Num(100), Num(150)},
     assets |-> {Undefined, Num(0), Num(1000), Num(2000), Num(20000)},
     current_assets |-> {Undefined, Num(100), Num(300), Num(500)},
     current_liabilities |-> {Undefined, Num(0), Num(200)},
     liabilities |-> {Undefined, Num(300), Num(2000)},
     equity |-> {Undefined, Num(0), Num(500), Num(1000)}]
FinancialsSnapshots ==
    [revenues : FieldValues.revenues,
     net_income_loss : FieldValues.net_income_loss,
     assets : FieldValues.assets,
     current_assets : FieldValues.current_assets,
     current_liabilities : FieldValues.current_liabilities,
     liabilities : FieldValues.liabilities,
     equity : FieldValues.equity]
\* financialData: an object with or without financials
FinancialData(financials) == [t |-> "object", financials |-> financials]
FinancialInputs ==
    {FinancialData(Undefined)}
        \cup {FinancialData([t |-> "object", value |-> f]) : f \in FinancialsSnapshots}

\* a variant of the extraction with a fault: every denominator defaults to 1
ExtractDenominatorsAsOne(value) ==
    [revenues |-> OrElse(value["revenues"], Num(1)),
     netIncome |-> OrElse(value["net_income_loss"], Num(0)),
     totalAssets |-> OrElse(value["assets"], Num(1)),
     currentAssets |-> OrElse(value["current_assets"], Num(0)),
     currentLiabilities |-> OrElse(value["current_liabilities"], Num(1)),
     totalLiabilities |-> OrElse(value["liabilities"], Num(0)),
     equity |-> OrElse(value["equity"], Num(1))]

\* lines 442-449: the seven values with their fallbacks
ExtractValues(value) ==
    [revenues |-> OrElse(value["revenues"], Num(0)),
     netIncome |-> OrElse(value["net_income_loss"], Num(0)),
     totalAssets |-> OrElse(value["assets"], Num(0)),
     currentAssets |-> OrElse(value["current_assets"], Num(0)),
     currentLiabilities |-> OrElse(value["current_liabilities"], Num(1)),
     totalLiabilities |-> OrElse(value["liabilities"], Num(0)),
     equity |-> OrElse(value["equity"], Num(1))]

\* a variant of the ratios with a fault: returnOnEquity lacks the * 100
ComputeRatiosNoPercent(v) ==
    [t |-> "object",
     netProfitMargin |-> OrElse(Times(Divide(v.netIncome, v.revenues), Num(100)), Num(0)),
     returnOnAssets |-> OrElse(Times(Divide(v.netIncome, v.totalAssets), Num(100)), Num(0)),
     returnOnEquity |-> OrElse(Divide(v.netIncome, v.equity), Num(0)),
     currentRatio |-> OrElse(Divide(v.currentAssets, v.currentLiabilities), Num(0)),
     debtToEquity |-> OrElse(Divide(v.totalLiabilities, v.equity), Num(0)),
     assetTurnover |-> OrElse(Divide(v.revenues, v.totalAssets), Num(0))]

\* lines 452-457: the six ratios
ComputeRatios(v) ==
    [t |-> "object",
     netProfitMargin |-> OrElse(Times(Divide(v.netIncome, v.revenues), Num(100)), Num(0)),
     returnOnAssets |-> OrElse(Times(Divide(v.netIncome, v.totalAssets), Num(100)), Num(0)),
     returnOnEquity |-> OrElse(Times(Divide(v.netIncome, v.equity), Num(100)), Num(0)),
     currentRatio |-> OrElse(Divide(v.currentAssets, v.currentLiabilities), Num(0)),
     debtToEquity |-> OrElse(Divide(v.totalLiabilities, v.equity), Num(0)),
     assetTurnover |-> OrElse(Divide(v.revenues, v.totalAssets), Num(0))]

\* lines 471-477: the condition of the first branch
BuyCondition(r) ==
    /\ Greater(r.netProfitMargin, Num(10))
    /\ Greater(r.returnOnAssets, Num(5))
    /\ Greater(r.returnOnEquity, Num(10))
    /\ Greater(r.currentRatio, Frac(3, 2))
    /\ Less(r.debtToEquity, Num(2))

\* a variant of the second condition with a fault: returnOnAssets below 10
SellConditionOverlaps(r) ==
    \/ Less(r.netProfitMargin, Num(0))
    \/ Less(r.returnOnAssets, Num(10))
    \/ Less(r.currentRatio, Num(1))
\* lines 480-483: the condition of the second branch
SellCondition(r) ==
    \/ Less(r.netProfitMargin, Num(0))
    \/ Less(r.returnOnAssets, Num(1))
    \/ Less(r.currentRatio, Num(1))

\* a variant of the decision with a fault: the margin is compared with >=
RecommendNonStrict(r) ==
    IF /\ ~Less(r.netProfitMargin, Num(10))
       /\ Greater(r.returnOnAssets, Num(5))
       /\ Greater(r.returnOnEquity, Num(10))
       /\ Greater(r.currentRatio, Frac(3, 2))
       /\ Less(r.debtToEquity, Num(2))
    THEN "BUY"
    ELSE IF \/ Less(r.netProfitMargin, Num(0))
            \/ Less(r.returnOnAssets, Num(1))
            \/ Less(r.currentRatio, Num(1))
    THEN "SELL"
    ELSE "HOLD"

\* lines 470-485: the recommendation
Recommend(r) ==
    IF BuyCondition(r) THEN "BUY"
    ELSE IF SellCondition(r) THEN "SELL"
    ELSE "HOLD"

EmptyObject == [t |-> "object"]
Report(recommendation, details) ==
    [recommendation |-> recommendation, details |-> details]

InitAnalyze ==
    /\ financialData \in FinancialInputs
    /\ locals = None
    /\ analysis = None
    /\ ServerIdle /\ FilterIdle /\ ProxyIdle /\ OtherIdle

\* lines 433-449: return HOLD without financials, else read the seven values
AnalyzeExtract ==
    /\ locals = None /\ analysis = None
    /\ IF Falsy(financialData.financials)
       THEN analysis' = Some(Report("HOLD", EmptyObject)) /\ locals' = locals
       ELSE locals' = Some(ExtractValues(financialData.financials.value))
            /\ analysis' = analysis
    /\ UNCHANGED <<financialData, serverVars, filterVars, proxyVars, rowVars, decideVars,
                   clientVars>>

\* lines 451-498: the ratios, the recommendation, the returned object
AnalyzeCompute ==
    /\ locals # None /\ analysis = None
    /\ LET ratios == ComputeRatios(locals[1]) IN
       analysis' = Some(Report(Recommend(ratios), ratios))
    /\ UNCHANGED <<financialData, locals, serverVars, filterVars, proxyVars, rowVars,
                   decideVars, clientVars>>

NextAnalyze == AnalyzeExtract \/ AnalyzeCompute
SpecAnalyze == InitAnalyze /\ [][NextAnalyze]_vars

-----------------------------------------------------------------------------
(* Properties of the ratio analyzer *)

\* x > p/q and x < p/q for a reported ratio x and a threshold p/q with q > 0
Above(x, p, q) == IF x.d = 0 THEN x.n = 1 ELSE x.n * q > p * x.d
Below(x, p, q) == IF x.d = 0 THEN x.n = -1 ELSE x.n * q < p * x.d

\* x is what a / b * k is reported as, for integers a, b and k > 0: the exact
\* quotient, an infinity of the sign of a when only b is 0, and 0 for 0/0
RatioIs(x, a, b, k) ==
    IF b = 0
    THEN x = (IF a = 0 THEN Num(0) ELSE IF a > 0 THEN Infinity ELSE NegInfinity)
    ELSE x.d > 0 /\ x.n * b = k * a * x.d

\* the snapshot of the analyzer's argument, when it has one
Snapshot == financialData.financials.value
HasFinancials == financialData.financials # Undefined

\* C8: BUY if netProfitMargin > 10, returnOnAssets > 5, returnOnEquity > 10,
\* currentRatio > 1.5 and debtToEquity < 2; otherwise SELL if netProfitMargin
\* < 0 or returnOnAssets < 1 or currentRatio < 1; otherwise HOLD.  The
\* comparisons are strict, a negative margin always gives SELL, and absent
\* financials give HOLD with empty details.
C8_Recommendation ==
    analysis # None =>
        IF ~HasFinancials
        THEN analysis[1] = [recommendation |-> "HOLD", details |-> [t |-> "object"]]
        ELSE LET r == analysis[1].details
                 rec == analysis[1].recommendation
                 buy == /\ Above(r.netProfitMargin, 10, 1)
                        /\ Above(r.returnOnAssets, 5, 1)
                        /\ Above(r.returnOnEquity, 10, 1)
                        /\ Above(r.currentRatio, 3, 2)
                        /\ Below(r.debtToEquity, 2, 1)
                 sell == \/ Below(r.netProfitMargin, 0, 1)
                         \/ Below(r.returnOnAssets, 1, 1)
                         \/ Below(r.currentRatio, 1, 1)
             IN  /\ rec = IF buy THEN "BUY" ELSE IF sell THEN "SELL" ELSE "HOLD"
                 /\ r.netProfitMargin = Num(10) => rec # "BUY"
                 /\ Below(r.netProfitMargin, 0, 1) => rec = "SELL"
\* a margin of exactly 10 with every other BUY condition met gives HOLD
C8_Witness ==
    /\ HasFinancials
    /\ Snapshot = [revenues |-> Num(1000), net_income_loss |-> Num(100),
                   assets |-> Num(1000), current_assets |-> Num(500),
                   current_liabilities |-> Num(200), liabilities |-> Num(300),
                   equity |-> Num(500)]
    /\ analysis # None
    /\ analysis[1].details.netProfitMargin = Num(10)
    /\ analysis[1].recommendation = "HOLD"

\* the example of the specification
ExampleSnapshot ==
    [revenues |-> Num(1000), net_income_loss |-> Num(150), assets |-> Num(2000),
     current_assets |-> Num(500), current_liabilities |-> Num(200),
     liabilities |-> Num(300), equity |-> Num(1000)]
ExampleRatios ==
    [t |-> "object", netProfitMargin |-> Num(15), returnOnAssets |-> Frac(15, 2),
     returnOnEquity |-> Num(15), currentRatio |-> Frac(5, 2),
     debtToEquity |-> Frac(3, 10), assetTurnover |-> Frac(1, 2)]

\* the six formulas over the integers given for the seven fields
RatiosAre(r, f) ==
    /\ RatioIs(r.netProfitMargin, f.netIncome, f.revenues, 100)
    /\ RatioIs(r.returnOnAssets, f.netIncome, f.totalAssets, 100)
    /\ RatioIs(r.returnOnEquity, f.netIncome, f.equity, 100)
    /\ RatioIs(r.currentRatio, f.currentAssets, f.currentLiabilities, 1)
    /\ RatioIs(r.debtToEquity, f.totalLiabilities, f.equity, 1)
    /\ RatioIs(r.assetTurnover, f.revenues, f.totalAssets, 1)

\* C9 as stated, for snapshots in which every field is present: the ratios
\* are the six formulas over the fields of the snapshot.
C9_RatiosOfSnapshotFields ==
    (analysis # None /\ HasFinancials /\ \A n \in FieldNames : Snapshot[n] # Undefined)
        => RatiosAre(analysis[1].details,
                     [revenues |-> Snapshot.revenues.n,
                      netIncome |-> Snapshot.net_income_loss.n,
                      totalAssets |-> Snapshot.assets.n,
                      currentAssets |-> Snapshot.current_assets.n,
                      currentLiabilities |-> Snapshot.current_liabilities.n,
                      totalLiabilities |-> Snapshot.liabilities.n,
                      equity |-> Snapshot.equity.n])

\* the value the analyzer works with for a field: its own value, except that
\* an absent or zero field counts as 0, and as 1 for currentLiabilities and equity
EffectiveValue(name, v) ==
    IF v = Undefined \/ v.n = 0
    THEN IF name \in {"current_liabilities", "equity"} THEN 1 ELSE 0
    ELSE v.n
Effective(f) ==
    [revenues |-> EffectiveValue("revenues", f.revenues),
     netIncome |-> EffectiveValue("net_income_loss", f.net_income_loss),
     totalAssets |-> EffectiveValue("assets", f.assets),
     currentAssets |-> EffectiveValue("current_assets", f.current_assets),
     currentLiabilities |-> EffectiveValue("current_liabilities", f.current_liabilities),
     totalLiabilities |-> EffectiveValue("liabilities", f.liabilities),
     equity |-> EffectiveValue("equity", f.equity)]

\* C9: the ratios are the six formulas over the values the analyzer works
\* with (a currentLiabilities or equity of 0 counts as 1); 0/0 is reported as
\* 0 and x/0 for x # 0 as an infinity; the example gives 15, 7.5, 15, 2.5,
\* 0.3, 0.5.
C9_Ratios ==
    (analysis # None /\ HasFinancials) =>
        /\ RatiosAre(analysis[1].details, Effective(Snapshot))
        /\ (Snapshot.revenues = Num(0) /\ Snapshot.net_income_loss = Num(0))
              => analysis[1].details.netProfitMargin = Num(0)
        /\ Snapshot = ExampleSnapshot => analysis[1].details = ExampleRatios
C9_Witness ==
    /\ HasFinancials
    /\ Snapshot = [ExampleSnapshot EXCEPT !.equity = Num(0)]
    /\ analysis # None
    /\ analysis[1].details.returnOnEquity = Num(15000)
    /\ analysis[1].details.debtToEquity = Num(300)
\* the example is among the snapshots analysed, and its recommendation is BUY
C9_ExampleReached ==
    HasFinancials /\ Snapshot = ExampleSnapshot /\ analysis # None
        /\ analysis[1] = Report("BUY", ExampleRatios)

\* C10 as stated: an absent field counts as 0, as 1 if it is a denominator
\* (revenue, totalAssets, equity, currentLiabilities); a present field keeps
\* its value.
ClaimedValue(name, v) ==
    IF v = Undefined
    THEN IF name \in {"revenues", "assets", "equity", "current_liabilities"} THEN 1 ELSE 0
    ELSE v.n
C10_DenominatorsDefaultToOne ==
    locals # None =>
        locals[1] =
            [revenues |-> Num(ClaimedValue("revenues", Snapshot.revenues)),
             netIncome |-> Num(ClaimedValue("net_income_loss", Snapshot.net_income_loss)),
             totalAssets |-> Num(ClaimedValue("assets", Snapshot.assets)),
             currentAssets |-> Num(ClaimedValue("current_assets", Snapshot.current_assets)),
             currentLiabilities |->
                 Num(ClaimedValue("current_liabilities", Snapshot.current_liabilities)),
             totalLiabilities |-> Num(ClaimedValue("liabilities", Snapshot.liabilities)),
             equity |-> Num(ClaimedValue("equity", Snapshot.equity))]

\* C10: an absent field counts as 0, except currentLiabilities and equity,
\* which count as 1 when absent or 0; revenue and totalAssets count as 0 when
\* absent; any other present field keeps its value.
C10_Defaults ==
    locals # None =>
        \A n \in DOMAIN locals[1] : locals[1][n] = Num(Effective(Snapshot)[n])
C10_Witness ==
    /\ locals # None
    /\ Snapshot.revenues = Undefined /\ locals[1].revenues = Num(0)
    /\ Snapshot.assets = Undefined /\ locals[1].totalAssets = Num(0)
    /\ Snapshot.equity = Num(0) /\ locals[1].equity = Num(1)
    /\ Snapshot.current_liabilities = Undefined /\ locals[1].currentLiabilities = Num(1)
    /\ Snapshot.net_income_loss = Num(150) /\ locals[1].netIncome = Num(150)

-----------------------------------------------------------------------------
(* Overlapping refreshes *)

\* the call whose response arrives in this step
Arriving(id) == id \in pending /\ id \notin pending'

\* C17: refreshes are not serialised, and every successful response is stored
\* when it arrives, whichever call it answers: the snapshot after the step is
\* the filtered response that arrived last, also when that response answers
\* an earlier call than the one that stored the snapshot before
C17_LastWriterWins ==
    [][(RefreshStep /\ RefreshSucceeds(lastResp'))
         => /\ \E id \in pending : Arriving(id) /\ writer' = Some(id)
            /\ insiderData' = ExpectedSnapshot(lastResp'.data.data.items)]_vars

\* the tick's response was stored first (and served) while the startup call
\* was still waiting; then the startup call's response arrived and replaced it
C17_Witness ==
    /\ writer = Some(0)
    /\ pending = {} /\ nextTick = 2
    /\ res = InsiderTradesResponse(<<Trade(Str(<<66, 90>>))>>)
    /\ insiderData = <<Trade(Str(<<65>>))>>

-----------------------------------------------------------------------------
(* The recommendation rule over ratio values around its thresholds *)

\* values a ratio can take: v / d of two numbers, (v / 0) = +-Infinity; NaN
\* never reaches the rule (|| 0)
MarginValues == {NegInfinity, Num(-1), Num(0), Num(10), Num(11), Infinity}
AssetReturnValues == {NegInfinity, Num(-1), Frac(1, 2), Num(1), Num(5), Num(6), Infinity}
EquityReturnValues == {Num(-1), Num(10), Num(11)}
CurrentRatioValues == {Num(-1), Frac(1, 2), Num(1), Frac(3, 2), Num(2), Infinity}
DebtRatioValues == {Num(-1), Num(1), Num(2), Infinity}
MetricInputs ==
    [netProfitMargin : MarginValues, returnOnAssets : AssetReturnValues,
     returnOnEquity : EquityReturnValues, currentRatio : CurrentRatioValues,
     debtToEquity : DebtRatioValues, assetTurnover : {Num(0)}]

InitDecide ==
    /\ metrics \in MetricInputs
    /\ decision = None
    /\ ServerIdle /\ FilterIdle /\ ProxyIdle /\ AnalyzeIdle /\ RowIdle /\ ClientIdle

\* lines 470-485 on the ratios held in metrics
Decide ==
    /\ decision = None
    /\ decision' = Some(Recommend(metrics))
    /\ UNCHANGED <<metrics, serverVars, filterVars, proxyVars, analyzeVars, rowVars,
                   clientVars>>

NextDecide == Decide
SpecDecide == InitDecide /\ [][NextDecide]_vars

\* the rule with its two tests in the other order
SellFirst(r) ==
    IF SellCondition(r) THEN "SELL"
    ELSE IF BuyCondition(r) THEN "BUY"
    ELSE "HOLD"

\* C18: no ratio values satisfy the BUY condition and the SELL condition
\* together, so testing SELL before BUY gives the recommendation the code gives
C18_ConditionsExclusive ==
    decision # None =>
        /\ ~(BuyCondition(metrics) /\ SellCondition(metrics))
        /\ decision[1] = SellFirst(metrics)

\* a BUY just above the thresholds the SELL condition shares with it
C18_Witness ==
    /\ decision = Some("BUY")
    /\ metrics.netProfitMargin = Num(11)
    /\ metrics.returnOnAssets = Num(6)
    /\ metrics.currentRatio = Num(2)

-----------------------------------------------------------------------------
(* displayData: one iteration of data.forEach *)

\* "N/A", "P", "S"
TextNA == <<78, 47, 65>>
CodeP == <<80>>
CodeS == <<83>>

\* 10^k
RECURSIVE Pow10(_)
Pow10(k) == IF k = 0 THEN 1 ELSE 10 * Pow10(k - 1)

\* the decimal digits of a natural number, as character codes
RECURSIVE Digits(_)
Digits(n) == IF n < 10 THEN <<48 + n>> ELSE Append(Digits(n \div 10), 48 + (n % 10))

\* the digits after the point of rem / d, for a fraction whose expansion ends
RECURSIVE FractionDigits(_, _)
FractionDigits(rem, d) ==
    IF rem = 0 THEN <<>>
    ELSE <<48 + ((rem * 10) \div d)>> \o FractionDigits((rem * 10) % d, d)

\* Number.prototype.toString of a finite number with a finite expansion
NumberToString(x) ==
    LET a == Abs(x.n)
        whole == Digits(a \div x.d)
        part == FractionDigits(a % x.d, x.d)
    IN  (IF x.n < 0 THEN <<45>> ELSE <<>>)
            \o whole \o (IF part = <<>> THEN <<>> ELSE <<46>> \o part)

\* the longest run of decimal digits of str from position pos (1-based)
RECURSIVE DigitRun(_, _)
DigitRun(str, pos) ==
    IF pos <= Len(str) /\ str[pos] >= 48 /\ str[pos] <= 57
    THEN <<str[pos] - 48>> \o DigitRun(str, pos + 1)
    ELSE <<>>

\* the number written by a run of digits
RECURSIVE DigitsValue(_)
DigitsValue(ds) ==
    IF ds = <<>> THEN 0 ELSE 10 * DigitsValue(SubSeq(ds, 1, Len(ds) - 1)) + ds[Len(ds)]

\* the first position of str that holds no white space
RECURSIVE SkipWhiteSpace(_, _)
SkipWhiteSpace(str, pos) ==
    IF pos <= Len(str) /\ str[pos] \in {32, 10} THEN SkipWhiteSpace(str, pos + 1) ELSE pos

\* parseFloat of a string: white space is skipped, then the longest prefix
\* sign digits [. digits] is read; NaN when that prefix has no digit.  (An
\* exponent part and the literal Infinity are not read: no input has one.)
ParseFloatString(str) ==
    LET start == SkipWhiteSpace(str, 1)
        signed == start <= Len(str) /\ str[start] \in {43, 45}
        sign == IF signed /\ str[start] = 45 THEN -1 ELSE 1
        first == IF signed THEN start + 1 ELSE start
        whole == DigitRun(str, first)
        dot == first + Len(whole)
        part == IF dot <= Len(str) /\ str[dot] = 46 THEN DigitRun(str, dot + 1) ELSE <<>>
    IN  IF whole = <<>> /\ part = <<>> THEN NaN
        ELSE Frac(sign * (DigitsValue(whole) * Pow10(Len(part)) + DigitsValue(part)),
                  Pow10(Len(part)))

\* parseFloat(v): the argument is converted to a string first
parseFloat(v) ==
    ParseFloatString(IF v.t = "number" THEN NumberToString(v) ELSE ToString(v))

\* ToNumber of a number or null, as the relational operators apply it
ToNumber(v) == IF v.t = "null" THEN Num(0) ELSE v

\* a <= b: false when either side is NaN
LessOrEqual(a, b) ==
    LET x == ToNumber(a)
        y == ToNumber(b)
    IN  x # NaN /\ y # NaN /\ ~Less(y, x)

\* |x| scaled by 10^k and rounded to an integer, halves away from zero
Rounded(x, k) == (2 * Abs(x.n) * Pow10(k) + x.d) \div (2 * x.d)

\* the last k digits of n, with leading zeros
RECURSIVE LastDigits(_, _)
LastDigits(n, k) ==
    IF k = 0 THEN <<>> ELSE Append(LastDigits(n \div 10, k - 1), 48 + (n % 10))

\* x.toFixed(2) of a finite number
ToFixed2(x) ==
    LET m == Rounded(x, 2) IN
    (IF x.n < 0 THEN <<45>> ELSE <<>>) \o Digits(m \div 100) \o <<46>> \o LastDigits(m, 2)

\* digits in groups of three, separated by commas
RECURSIVE Grouped(_)
Grouped(ds) ==
    IF Len(ds) <= 3 THEN ds
    ELSE Grouped(SubSeq(ds, 1, Len(ds) - 3)) \o <<44>> \o SubSeq(ds, Len(ds) - 2, Len(ds))

\* a run of digits without its trailing zeros
RECURSIVE StripZeros(_)
StripZeros(ds) ==
    IF ds # <<>> /\ ds[Len(ds)] = 48 THEN StripZeros(SubSeq(ds, 1, Len(ds) - 1)) ELSE ds

\* x.toLocaleString() of a finite number in the en-US locale: grouped integer
\* digits, at most three fraction digits
ToLocaleString(x) ==
    LET m == Rounded(x, 3)
        part == StripZeros(LastDigits(m, 3))
    IN  (IF x.n < 0 THEN <<45>> ELSE <<>>) \o Grouped(Digits(m \div 1000))
            \o (IF part = <<>> THEN <<>> ELSE <<46>> \o part)

\* `${v}` of a string or a finite number
Interpolate(v) == IF v.t = "number" THEN NumberToString(v) ELSE ToString(v)

\* line 77: price && shares ? price * shares : 0
TradeValue(price, shares) ==
    IF ~Falsy(price) /\ ~Falsy(shares) THEN Times(price, shares) ELSE Num(0)

\* lines 80-89: the classes added to the new row
RowClass(transactionType, price) ==
    IF transactionType = Str(CodeP)
    THEN IF LessOrEqual(price, Num(2)) THEN {"highlight-green-bold"}
         ELSE {"highlight-green"}
    ELSE {}

\* lines 66-100: the row built for one trade: the locals of the iteration,
\* the class list, and the text of the cells for shares, price and value
RenderRow(tr) ==
    LET company == OrElse(tr.symbol, Str(TextNA))
        transactionType == OrElse(tr.transactionCode, Str(TextNA))
        shares == OrElse(tr.change, Num(0))
        price == IF ~Falsy(tr.transactionPrice) THEN parseFloat(tr.transactionPrice)
                 ELSE Null
        tradeValue == TradeValue(price, shares)
    IN  [company |-> company,
         transactionType |-> transactionType,
         shares |-> shares,
         price |-> price,
         tradeValue |-> tradeValue,
         classList |-> RowClass(transactionType, price),
         sharesCell |-> Interpolate(shares),
         priceCell |-> IF ~Falsy(price) THEN <<36>> \o ToFixed2(price) ELSE TextNA,
         valueCell |-> IF ~Falsy(tradeValue) THEN <<36>> \o ToLocaleString(tradeValue)
                       ELSE TextNA]

\* the fields of a trade that displayData reads for these cells
TradeCodes == {Undefined, Str(CodeP), Str(CodeS)}
TradeChanges == {Undefined, Num(0), Num(-5), Num(100), Num(1000)}
\* "1.5", "abc", "0", ""
TradePrices ==
    {Undefined, Null, Num(0), Num(1), Frac(3, 2), Num(2), Frac(201, 100), Num(10),
     Str(<<49, 46, 53>>), Str(<<97, 98, 99>>), Str(<<48>>), Str(<<>>)}
ClientTrade(sym, code, change, price) ==
    [t |-> "object", symbol |-> sym, transactionCode |-> code, change |-> change,
     transactionPrice |-> price]
RowInputs ==
    {ClientTrade(sym, code, change, price) :
        sym \in {Undefined, Str(<<65>>)}, code \in TradeCodes,
        change \in TradeChanges, price \in TradePrices}

InitRow ==
    /\ trade \in RowInputs
    /\ row = None
    /\ ServerIdle /\ FilterIdle /\ ProxyIdle /\ AnalyzeIdle /\ DecideIdle /\ ClientIdle

\* one call of the forEach callback
DisplayRow ==
    /\ row = None
    /\ row' = Some(RenderRow(trade))
    /\ UNCHANGED <<trade, serverVars, filterVars, proxyVars, analyzeVars, decideVars,
                   clientVars>>

NextRow == DisplayRow
SpecRow == InitRow /\ [][NextRow]_vars

\* the trade carries a price: a number other than 0 (JSON carries no NaN)
HasPrice(tr) == tr.transactionPrice.t = "number" /\ tr.transactionPrice.n # 0
\* the trade carries no price field, or null
PriceAbsent(tr) == tr.transactionPrice.t \in {"undefined", "null"}
\* |x| of a finite number
Magnitude(x) == Frac(Abs(x.n), x.d)

\* C11 as stated: the trade value of a row is the price times the absolute
\* value of the share delta (10 and -5 give 50); without a price the value is
\* 0 and the cell reads "N/A"
C11_TradeValueAbsolute ==
    row # None =>
        /\ (HasPrice(trade) /\ trade.change.t = "number")
              => row[1].tradeValue = Times(trade.transactionPrice, Magnitude(trade.change))
        /\ PriceAbsent(trade)
              => row[1].tradeValue = Num(0) /\ row[1].valueCell = TextNA

\* C12 as stated: highlight-green-bold exactly for a purchase with a price of
\* at most 2, highlight-green for every other purchase (a purchase without a
\* price included), no class for any other row
C12_RowStyle ==
    row # None =>
        row[1].classList =
            IF trade.transactionCode = Str(CodeP)
            THEN IF ~PriceAbsent(trade) /\ LessOrEqual(row[1].price, Num(2))
                 THEN {"highlight-green-bold"}
                 ELSE {"highlight-green"}
            ELSE {}

-----------------------------------------------------------------------------
(* The page: polling, the table, row selection, the modal and its chart *)

\* most records in a snapshot served to the page
MaxRows == 3
\* most fetchData calls in flight at once
MaxPolls == 2
\* most row click handlers in flight at once
MaxClicks == 2
\* most Chart objects alive at once
MaxCharts == 2

\* fetch() rejected: the server is not reachable
Rejected == [status |-> 0, type |-> "rejected"]

\* response.ok
IsOk(response) == response.status >= 200 /\ response.status <= 299

\* await response.json(): the parsed body, or a SyntaxError for a text body
ResponseJson(response) ==
    IF response.type = "json" THEN Value(response.json) ELSE Threw

\* the table after line 19: its children are replaced by the message
FailedTable == [tbody |-> FALSE, text |-> "Failed to load data."]

\* lines 54-119: the table after displayData(data), or Threw when the table
\* has no <tbody> left (tableBody is undefined at line 61) or data has no
\* forEach
displayData(data, tbl) ==
    IF ~tbl.tbody \/ data.t # "array" THEN Threw
    ELSE Value([tbody |-> TRUE,
                rows |-> [i \in 1..Len(data.items) |-> RenderRow(data.items[i])]])

\* lines 2-21: the table after one fetchData call whose fetch settled with
\* response
fetchData(response, tbl) ==
    LET data == IF response = Rejected THEN Threw ELSE ResponseJson(response)
        shown == IF data.threw THEN Threw ELSE displayData(data.value, tbl)
    IN  IF shown.threw THEN FailedTable ELSE shown.value

\* lines 132-169: the value fetchTiingoData returns for a settled fetch
fetchTiingoData(response) ==
    IF response = Rejected \/ ~IsOk(response) THEN Null
    ELSE LET data == ResponseJson(response) IN
         IF data.threw THEN Null
         ELSE IF HasLength(data.value)
         THEN [t |-> "object",
               price |-> IF data.value.t = "array" THEN Num(data.value.items[1].close)
                         ELSE Undefined]
         ELSE Null

\* lines 399-419: the value fetchFinancialData returns for a settled fetch
fetchFinancialData(response) ==
    IF response = Rejected \/ ~IsOk(response) THEN Null
    ELSE LET data == ResponseJson(response) IN
         IF data.threw THEN Null ELSE data.value

\* lines 432-499
analyzeFinancialData(fd) ==
    IF Falsy(fd.financials) THEN Report("HOLD", EmptyObject)
    ELSE LET r == ComputeRatios(ExtractValues(fd.financials.value)) IN
         Report(Recommend(r), r)

\* x.toFixed(2), also of an infinity
ToFixed(x) ==
    IF x.d # 0 THEN ToFixed2(x)
    ELSE (IF x.n < 0 THEN <<45>> ELSE <<>>) \o <<73, 110, 102, 105, 110, 105, 116, 121>>

\* the page state the detail view works on
View(m, inst, live) == [modal |-> m, financialChartInstance |-> inst, charts |-> live]

\* a Chart object
Chart(id) == [t |-> "chart", id |-> id]

\* financialChartInstance.destroy() and the reset to null, when one is set
DestroyChart(v) ==
    IF Falsy(v.financialChartInstance) THEN v
    ELSE View(v.modal, Null, v.charts \ {v.financialChartInstance.id})

\* a variant of createChart with a fault: the chart in place is not destroyed
createChartKeepsOld(v, fd, built) ==
    IF Falsy(fd.financials) \/ ~built \/ Cardinality(v.charts) >= MaxCharts THEN v
    ELSE LET id == CHOOSE i \in 1..MaxCharts : i \notin v.charts IN
         View(v.modal, Chart(id), v.charts \cup {id})

\* lines 290-387: the chart in place is destroyed; reading the figures throws
\* when fd has no financials; new Chart either builds the chart or throws
\* (caught at line 384, e.g. when the Chart.js script did not load)
createChart(v, fd, built) ==
    LET cleared == DestroyChart(v) IN
    IF Falsy(fd.financials) \/ ~built THEN cleared
    ELSE LET id == CHOOSE i \in 1..MaxCharts : i \notin cleared.charts IN
         View(cleared.modal, Chart(id), cleared.charts \cup {id})

\* the text of the modal body: the recommendation and the six metric cells
ModalContent(rec) ==
    [recommendation |-> rec.recommendation,
     netProfitMargin |-> ToFixed(rec.details.netProfitMargin),
     returnOnAssets |-> ToFixed(rec.details.returnOnAssets),
     returnOnEquity |-> ToFixed(rec.details.returnOnEquity),
     currentRatio |-> ToFixed(rec.details.currentRatio),
     debtToEquity |-> ToFixed(rec.details.debtToEquity),
     assetTurnover |-> ToFixed(rec.details.assetTurnover)]

\* lines 182-227: the title is set; the template throws a TypeError when
\* details has no netProfitMargin (undefined.toFixed), before the content and
\* the display are assigned; else the modal is shown and, with financial
\* data, the chart created
showModal(v, company, stockInfo, rec, fd, built) ==
    LET titled == [v.modal EXCEPT !.title = Some(company)] IN
    IF rec.details = EmptyObject
    THEN View(titled, v.financialChartInstance, v.charts)
    ELSE LET shown == [titled EXCEPT !.content = Some(ModalContent(rec)),
                                     !.display = "flex"]
             opened == View(shown, v.financialChartInstance, v.charts)
         IN  IF ~Falsy(fd) THEN createChart(opened, fd, built) ELSE opened

\* a variant of the click handler's end with a fault: no test of stockInfo
finishClickUnguarded(v, company, stockInfo, fd, built) ==
    showModal(v, company, stockInfo,
              IF ~Falsy(fd) THEN analyzeFinancialData(fd) ELSE Report("HOLD", EmptyObject),
              fd, built)

\* lines 106-113: the click handler after its two awaits
finishClick(v, company, stockInfo, fd, built) ==
    IF ~Falsy(stockInfo)
    THEN showModal(v, company, stockInfo,
                   IF ~Falsy(fd) THEN analyzeFinancialData(fd)
                   ELSE Report("HOLD", EmptyObject),
                   fd, built)
    ELSE v

\* lines 235-252 and 264-277: hide the modal, destroy the chart
closeModal(v) ==
    DestroyChart(View([v.modal EXCEPT !.display = "none"], v.financialChartInstance,
                      v.charts))

\* the records of the snapshots served to the page: a purchase, a sale, and a
\* purchase without a price
PageTrades ==
    {ClientTrade(Str(<<65>>), Str(CodeP), Num(100), Num(1)),
     ClientTrade(Str(<<66, 90>>), Str(CodeS), Num(-5), Num(10)),
     ClientTrade(Str(<<67>>), Str(CodeP), Num(1000), Undefined)}
\* what a fetch of /api/insider-trades settles with: a rejection, or the
\* JSON array the server sends
PollResponses == {Rejected} \cup {Json(Arr(d)) : d \in SeqsUpTo(PageTrades, MaxRows)}

\* what the provider does for the server's /api/tiingo handler
PagePriceOutcomes ==
    {NetworkError, HttpError(429), Ok(Null), Ok(Arr(<<>>)), Ok(Str(<<66, 46, 66>>))}
        \cup {Ok(Arr(<<point>>)) : point \in PricePoints}
\* what a fetch of /api/tiingo settles with: a rejection, or a response of
\* the server's handler
PriceResponses(company) ==
    {Rejected} \cup {tiingo(company.chars, outcome) : outcome \in PagePriceOutcomes}

\* the figures of one filing
Filing ==
    [revenues |-> Num(1000), net_income_loss |-> Num(150), assets |-> Num(2000),
     current_assets |-> Num(500), current_liabilities |-> Num(200),
     liabilities |-> Num(300), equity |-> Num(1000)]
\* results[0] as the server forwards it: with financials, or without
PageFinancials ==
    {FinancialData(Undefined), FinancialData([t |-> "object", value |-> Filing])}
\* what a fetch of /api/polygon-financials settles with
FinancialsResponses ==
    {Rejected, Text(404, <<MsgNoFinancials>>)} \cup {Json(fd) : fd \in PageFinancials}

\* the page after the scripts ran: fetchData() of line 503 is in flight
InitPoll ==
    /\ table = PageTable
    /\ polls = 1
    /\ clicks = EmptyBag
    /\ modal = PageModal
    /\ financialChartInstance = Undefined
    /\ charts = {}
    /\ event = [kind |-> "load"]
    /\ ServerIdle /\ FilterIdle /\ ProxyIdle /\ AnalyzeIdle /\ RowIdle /\ DecideIdle

\* bags of click handlers: one more e, one e less, the number of elements
BagAdd(b, e) ==
    [x \in DOMAIN b \cup {e} |->
        IF x \in DOMAIN b THEN b[x] + (IF x = e THEN 1 ELSE 0) ELSE 1]
BagRemove(b, e) ==
    [x \in {y \in DOMAIN b : y # e \/ b[y] > 1} |-> IF x = e THEN b[x] - 1 ELSE b[x]]
RECURSIVE BagSizeOver(_, _)
BagSizeOver(b, S) ==
    IF S = {} THEN 0
    ELSE LET x == CHOOSE y \in S : TRUE IN b[x] + BagSizeOver(b, S \ {x})
BagSize(b) == BagSizeOver(b, DOMAIN b)

otherVars == <<serverVars, filterVars, proxyVars, analyzeVars, rowVars, decideVars>>

\* setInterval(fetchData, 60000): a call starts and waits for its fetch
TimerTick ==
    /\ polls < MaxPolls
    /\ polls' = polls + 1
    /\ event' = [kind |-> "tick"]
    /\ UNCHANGED <<table, clicks, modal, financialChartInstance, charts, otherVars>>

\* the fetch of one fetchData call settles and the call runs to its end
FetchDataResume(response) ==
    /\ polls > 0
    /\ polls' = polls - 1
    /\ table' = fetchData(response, table)
    /\ event' = [kind |-> "poll", response |-> response]
    /\ UNCHANGED <<clicks, modal, financialChartInstance, charts, otherVars>>

\* a click on row i of the table (the open modal covers the table): the
\* handler starts and waits for fetchTiingoData
RowClick(i) ==
    /\ table.tbody /\ i \in DOMAIN table.rows
    /\ modal.display = "none"
    /\ BagSize(clicks) < MaxClicks
    /\ clicks' = BagAdd(clicks, [company |-> table.rows[i].company, stage |-> "price",
                                 stockInfo |-> Undefined])
    /\ event' = [kind |-> "select"]
    /\ UNCHANGED <<table, polls, modal, financialChartInstance, charts, otherVars>>

\* fetchTiingoData of handler c returns; the handler waits for fetchFinancialData
PriceResume(c, response) ==
    /\ c \in DOMAIN clicks /\ c.stage = "price"
    /\ clicks' = BagAdd(BagRemove(clicks, c),
                        [c EXCEPT !.stage = "financials",
                                  !.stockInfo = fetchTiingoData(response)])
    /\ event' = [kind |-> "price"]
    /\ UNCHANGED <<table, polls, modal, financialChartInstance, charts, otherVars>>

\* fetchFinancialData of handler c returns and the handler runs to its end
FinancialsResume(c, response, built) ==
    /\ c \in DOMAIN clicks /\ c.stage = "financials"
    /\ clicks' = BagRemove(clicks, c)
    /\ LET fd == fetchFinancialData(response)
           v == finishClick(View(modal, financialChartInstance, charts), c.company,
                            c.stockInfo, fd, built)
       IN  /\ modal' = v.modal
           /\ financialChartInstance' = v.financialChartInstance
           /\ charts' = v.charts
           /\ event' = [kind |-> "financials", stockInfo |-> c.stockInfo,
                        financialData |-> fd]
    /\ UNCHANGED <<table, polls, otherVars>>

\* a click on the close button of the open modal
CloseButtonClick ==
    /\ modal.display = "flex"
    /\ LET v == closeModal(View(modal, financialChartInstance, charts)) IN
       /\ modal' = v.modal
       /\ financialChartInstance' = v.financialChartInstance
       /\ charts' = v.charts
    /\ event' = [kind |-> "close"]
    /\ UNCHANGED <<table, polls, clicks, otherVars>>

\* a click on the modal's backdrop: event.target === modal
OutsideClick ==
    /\ modal.display = "flex"
    /\ LET v == closeModal(View(modal, financialChartInstance, charts)) IN
       /\ modal' = v.modal
       /\ financialChartInstance' = v.financialChartInstance
       /\ charts' = v.charts
    /\ event' = [kind |-> "outside"]
    /\ UNCHANGED <<table, polls, clicks, otherVars>>

NextPoll ==
    \/ TimerTick
    \/ \E response \in PollResponses : FetchDataResume(response)

\* polling: fetchData and displayData
SpecPoll == InitPoll /\ [][NextPoll]_vars

\* the snapshot with one record of each company
BothCompanies == Json(Arr(<<ClientTrade(Str(<<65>>), Str(CodeP), Num(100), Num(1)),
                            ClientTrade(Str(<<66, 90>>), Str(CodeS), Num(-5), Num(10))>>))

\* the page after the first fetchData call rendered a snapshot.  Polling
\* changes only the table, which the actions of the detail view only read
\* (a handler keeps the company of its row), so the table stays as rendered.
InitDetail ==
    /\ table = fetchData(BothCompanies, PageTable)
    /\ polls = 0
    /\ clicks = EmptyBag
    /\ modal = PageModal
    /\ financialChartInstance = Undefined
    /\ charts = {}
    /\ event = [kind |-> "poll", response |-> BothCompanies]
    /\ ServerIdle /\ FilterIdle /\ ProxyIdle /\ AnalyzeIdle /\ RowIdle /\ DecideIdle

NextDetail ==
    \/ \E i \in DOMAIN table.rows : RowClick(i)
    \/ \E c \in DOMAIN clicks : \E response \in PriceResponses(c.company) :
          PriceResume(c, response)
    \/ \E c \in DOMAIN clicks, response \in FinancialsResponses, built \in BOOLEAN :
          FinancialsResume(c, response, built)
    \/ CloseButtonClick
    \/ OutsideClick

\* row selection, the modal and its chart
SpecDetail == InitDetail /\ [][NextDetail]_vars

-----------------------------------------------------------------------------
(* Properties of the page *)

\* the click handler that ended last had price data / had none
PriceAvailable == event.kind = "financials" /\ ~Falsy(event.stockInfo)
\* the table that shows exactly the records of data, in order
Rendered(data) ==
    [tbody |-> TRUE, rows |-> [i \in 1..Len(data.items) |-> RenderRow(data.items[i])]]

\* C13 as stated: when a selection gets price data but no financial data, the
\* handler still opens the modal, which shows the default HOLD recommendation
C13_OpensWithDefaultHold ==
    (PriceAvailable /\ Falsy(event.financialData))
        => /\ modal.display = "flex"
           /\ modal.content # None
           /\ modal.content[1].recommendation = "HOLD"

\* C14 as stated: every poll whose fetch succeeds leaves the table showing
\* exactly the records of its snapshot, in order, also after an earlier poll
\* failed and put the failure message in the table's place
C14_LaterPollsRender ==
    (event.kind = "poll" /\ event.response # Rejected)
        => table = Rendered(event.response.json)

\* C15: at most one Chart object is alive in every state, whatever the order
\* of selections, responses and close clicks; right after a click on the
\* close button or on the backdrop the modal is hidden and no chart is alive
C15_OneChart ==
    /\ Cardinality(charts) <= 1
    /\ ~Falsy(financialChartInstance) => charts = {financialChartInstance.id}
    /\ event.kind \in {"close", "outside"} => modal.display = "none" /\ charts = {}

\* a backdrop click destroyed the chart of an open modal (the variable is
\* null only after a destroy) while another selection was still in flight
C15_Witness ==
    /\ event.kind = "outside"
    /\ financialChartInstance = Null
    /\ modal.content # None
    /\ BagSize(clicks) > 0

\* C16: a click handler whose price data is unavailable ends without any
\* change to the modal (display, title, content) or to the chart, whatever
\* the financials request returned
C16_NoPriceNoChange ==
    [][(event'.kind = "financials" /\ Falsy(event'.stockInfo))
         => UNCHANGED <<modal, financialChartInstance, charts>>]_vars

\* a handler without price data but with financial data ended while the
\* modal of another selection was open with its chart
C16_Witness ==
    /\ event.kind = "financials"
    /\ event.stockInfo = Null
    /\ ~Falsy(event.financialData) /\ ~Falsy(event.financialData.financials)
    /\ modal.display = "flex"
    /\ charts # {}
====
